---- MODULE Spec2Model ----
(***************************************************************************)
(* Model of src/app/wrap_functions.py: the rewriter wrap_function and the  *)
(* driver script that reads a file, threads its content through            *)
(* wrap_function once per function name, and writes it back.               *)
(*                                                                         *)
(* A content is a sequence of lexical tokens.  The tokens are chosen so    *)
(* that each of the two regular expressions of wrap_function matches on    *)
(* token boundaries only; a token is a pair <<kind, name>>:                *)
(*   DECL f  export async function f(x) {        (one opening brace)       *)
(*   TRY     try {                                                         *)
(*   WRAP    return withServerActionErrorHandler(async () => {             *)
(*   BODY    doWork(x);                          (no brace)                *)
(*   WS      white space                                                   *)
(*   RB      }                                                             *)
(*   CATCH    catch (error) {                    (with its leading blank)  *)
(*   LOG     console.error(e);                                             *)
(*   RETFAIL return { success: false, error: e };                          *)
(*   RETOK   return { success: true };                                     *)
(*   ARG l   , l);                               (trailing argument l)     *)
(*   CTL     the control character U+0002                                  *)
(* File sizes and offsets are counted in tokens.                           *)
(***************************************************************************)
EXTENDS Integers, Sequences, FiniteSets

\* ------------------------------------------------------------------ bounds
MaxFuncs == 2
MaxArgs == 2
MaxFuncsConc == 1
MaxArgsConc == 1

\* ------------------------------------------------------------------ tokens
Names == {"save", "load"}

DECL(f) == <<"DECL", f>>
TRY == <<"TRY", "">>
WRAP == <<"WRAP", "">>
BODY == <<"BODY", "">>
WS == <<"WS", "">>
RB == <<"RB", "">>
CATCH == <<"CATCH", "">>
LOG == <<"LOG", "">>
RETFAIL == <<"RETFAIL", "">>
RETOK == <<"RETOK", "">>
ARG(l) == <<"ARG", l>>
CTL == <<"CTL", "">>

Min(S) == CHOOSE x \in S : \A y \in S : x <= y

\* \s matches the token
IsWS(t) == t = WS

\* the token holds a closing brace, so [^}]* cannot run over it
HasRBrace(t) ==
  \/ t \in {RB, RETFAIL, RETOK}
  \/ t = ARG("{function_name}")

\* first position >= i of c that holds no white space (Len(c)+1 if none): \s*
SkipWS(c, i) ==
  LET S == {k \in i..Len(c) : ~IsWS(c[k])}
  IN IF S = {} THEN Len(c) + 1 ELSE Min(S)

\* ------------------------------------------------------------ wrap_function
\* the replacement of Step A: group 1 is re-emitted, 'try {' becomes the opener
replacement == WRAP

\* pattern of Step A matches with its 'try {' at position k of c
TryMatch(c, k, function_name) ==
  /\ c[k] = TRY
  /\ \E i \in 1..(k-1) : c[i] = DECL(function_name) /\ SkipWS(c, i + 1) = k

\* re.sub(pattern, replacement, content): every match is replaced
SubTry(c, function_name) ==
  [k \in 1..Len(c) |-> IF TryMatch(c, k, function_name) THEN replacement ELSE c[k]]

\* catch_pattern matched with its first '}' at position i of c: the position
\* of the closing '}' of the match, or 0 when there is no match at i
CatchEnd(c, i) ==
  IF ~(i + 1 <= Len(c) /\ c[i] = RB /\ c[i+1] = CATCH) THEN 0
  ELSE LET S == {k \in (i+2)..Len(c) : HasRBrace(c[k])}
           r == IF S = {} THEN 0 ELSE Min(S)
           e == IF r = 0 THEN 0 ELSE SkipWS(c, r + 1)
       IN IF /\ r # 0
             /\ c[r] = RETFAIL
             /\ \E k \in (i+2)..(r-1) : c[k] = LOG
             /\ e <= Len(c)
             /\ c[e] = RB
          THEN e ELSE 0

\* catch_replacement as Python builds it from the three adjacent literals
\* rf'\1}}, ' '{function_name}' ');\2}}': only the first is an f-string, so
\* the label is the text {function_name}, \2 is U+0002 and }} is two braces.
\* Group 1 (white space before the first brace) is re-emitted unchanged and
\* is left in place by SubCatchFrom; ws2 is group 2.
catch_replacement(ws2, function_name) ==
  <<RB, ARG("{function_name}"), CTL, RB, RB>>

RECURSIVE SubCatchFrom(_, _, _)
\* left-to-right scan of re.sub from position pos, matches do not overlap
SubCatchFrom(c, pos, function_name) ==
  IF pos > Len(c) THEN <<>>
  ELSE LET e == CatchEnd(c, pos)
       IN IF e # 0
          THEN LET r == Min({k \in (pos+2)..Len(c) : HasRBrace(c[k])})
               IN catch_replacement(SubSeq(c, r + 1, e - 1), function_name)
                    \o SubCatchFrom(c, e + 1, function_name)
          ELSE <<c[pos]>> \o SubCatchFrom(c, pos + 1, function_name)

RECURSIVE SubCatchOnce(_, _, _)
\* re.sub with count=1: the first match only
SubCatchOnce(c, pos, function_name) ==
  IF pos > Len(c) THEN <<>>
  ELSE LET e == CatchEnd(c, pos)
       IN IF e # 0
          THEN LET r == Min({k \in (pos+2)..Len(c) : HasRBrace(c[k])})
               IN catch_replacement(SubSeq(c, r + 1, e - 1), function_name)
                    \o SubSeq(c, e + 1, Len(c))
          ELSE <<c[pos]>> \o SubCatchOnce(c, pos + 1, function_name)

SubCatchFirst(c, function_name) == SubCatchOnce(c, 1, function_name)

\* re.sub(catch_pattern, catch_replacement, content): every match is replaced
SubCatch(c, function_name) == SubCatchFrom(c, 1, function_name)

wrap_function(content, function_name) ==
  SubCatch(SubTry(content, function_name), function_name)

\* ------------------------------------------------------------------ inputs
\* one function of the input file, from its header and the shape of its body
Function(h, shape) ==
  CASE shape = "plain"  -> <<h, BODY, RB>>
    [] shape = "fail"   -> <<h, TRY, BODY, RB, CATCH, LOG, RETFAIL, RB, RB>>
    [] shape = "failws" -> <<h, WS, TRY, BODY, WS, RB, CATCH, BODY, LOG, RETFAIL,
                             WS, RB, WS, RB>>
    [] shape = "twice"  -> <<h, TRY, BODY, RB, CATCH, LOG, RETFAIL, RB,
                             CATCH, LOG, RETFAIL, RB, RB>>
    [] shape = "ok"     -> <<h, TRY, BODY, RB, CATCH, LOG, RETOK, RB, RB>>
    [] shape = "nolog"  -> <<h, TRY, BODY, RB, CATCH, BODY, RETFAIL, RB, RB>>

Shapes == {"plain", "fail", "failws", "twice", "ok", "nolog"}
ShapesConc == {"fail", "failws"}

Functions == {Function(DECL(f), s) : f \in Names, s \in Shapes}
FunctionsConc == {Function(DECL(f), s) : f \in Names, s \in ShapesConc}

RECURSIVE Concat(_)
Concat(ss) == IF ss = <<>> THEN <<>> ELSE Head(ss) \o Concat(Tail(ss))

SeqsUpTo(S, n) == UNION {[1..k -> S] : k \in 0..n}

\* the files the tool is run on
Contents == {Concat(ss) : ss \in SeqsUpTo(Functions, MaxFuncs)}
ContentsConc == {Concat(ss) : ss \in SeqsUpTo(FunctionsConc, MaxFuncsConc)}

\* sys.argv[2:]
ArgLists == SeqsUpTo(Names, MaxArgs)
ArgListsConc == SeqsUpTo(Names, MaxArgsConc)

\* ------------------------------------------------------------------- state
Procs == {1, 2}

VARIABLES
  file,       \* the content of the file named by sys.argv[1]
  pc,         \* pc[p]: where run p of the script stands
  functions,  \* functions[p]: sys.argv[2:] of run p
  content,    \* content[p]: the in-memory buffer of run p
  idx,        \* idx[p]: number of names the for loop of run p has processed
  out,        \* out[p]: the lines run p printed
  before,     \* history: before[p] is content[p] before the latest pass
  initial,    \* history: the file before any run started
  hist        \* history: the file operations so far, <<p, op>>

vars == <<file, pc, functions, content, idx, out, before, initial, hist>>

Active == {p \in Procs : pc[p] # "off"}

Init ==
  /\ file \in Contents
  /\ initial = file
  /\ pc = [p \in Procs |-> IF p = 1 THEN "read" ELSE "off"]
  /\ \E a \in ArgLists : functions = [p \in Procs |-> IF p = 1 THEN a ELSE <<>>]
  /\ content = [p \in Procs |-> <<>>]
  /\ before = [p \in Procs |-> <<>>]
  /\ idx = [p \in Procs |-> 0]
  /\ out = [p \in Procs |-> <<>>]
  /\ hist = <<>>

InitConc ==
  /\ file \in ContentsConc
  /\ initial = file
  /\ pc = [p \in Procs |-> "read"]
  /\ functions \in [Procs -> ArgListsConc]
  /\ content = [p \in Procs |-> <<>>]
  /\ before = [p \in Procs |-> <<>>]
  /\ idx = [p \in Procs |-> 0]
  /\ out = [p \in Procs |-> <<>>]
  /\ hist = <<>>

\* ----------------------------------------------------------------- actions
\* with open(filename, 'r') as f: content = f.read()
Read(p) ==
  /\ pc[p] = "read"
  /\ content' = [content EXCEPT ![p] = file]
  /\ pc' = [pc EXCEPT ![p] = "loop"]
  /\ hist' = Append(hist, <<p, "read">>)
  /\ UNCHANGED <<file, functions, idx, out, before, initial>>

\* open(filename, 'r') raises: the run ends with the error
ReadFail(p) ==
  /\ pc[p] = "read"
  /\ pc' = [pc EXCEPT ![p] = "failed"]
  /\ UNCHANGED <<file, functions, content, idx, out, before, initial, hist>>

\* the name the for loop takes next
NextFunc(p) == functions[p][idx[p] + 1]

\* a pass over the original content instead of the cumulative one
WrapStale(p) == wrap_function(initial, NextFunc(p))

\* the value the loop body assigns to content
WrapResult(p) == wrap_function(content[p], NextFunc(p))

\* for func in functions: content = wrap_function(content, func)
Wrap(p) ==
  /\ pc[p] = "loop"
  /\ idx[p] < Len(functions[p])
  /\ content' = [content EXCEPT ![p] = WrapResult(p)]
  /\ idx' = [idx EXCEPT ![p] = idx[p] + 1]
  /\ before' = [before EXCEPT ![p] = content[p]]
  /\ UNCHANGED <<file, pc, functions, out, initial, hist>>

\* open in a mode that keeps the old content
OpenedKeep(old) == old

\* the file right after open(filename, 'w'): truncated
Opened(old) == <<>>

\* with open(filename, 'w') as f:   (after the last name)
OpenWrite(p) ==
  /\ pc[p] = "loop"
  /\ idx[p] = Len(functions[p])
  /\ file' = Opened(file)
  /\ pc' = [pc EXCEPT ![p] = "write"]
  /\ hist' = Append(hist, <<p, "open">>)
  /\ UNCHANGED <<functions, content, idx, out, before, initial>>

\* open(filename, 'w') raises: nothing is truncated, the run ends
OpenWriteFail(p) ==
  /\ pc[p] = "loop"
  /\ idx[p] = Len(functions[p])
  /\ pc' = [pc EXCEPT ![p] = "failed"]
  /\ UNCHANGED <<file, functions, content, idx, out, before, initial, hist>>

\* the data appended to what the file holds
Appended(old, new) == old \o new

\* the file after writing new at offset 0 of a file holding old
Written(old, new) == new \o SubSeq(old, Len(new) + 1, Len(old))

\* f.write(content) and the flush when the with block closes f
Write(p) ==
  /\ pc[p] = "write"
  /\ file' = Written(file, content[p])
  /\ pc' = [pc EXCEPT ![p] = "print"]
  /\ hist' = Append(hist, <<p, "write">>)
  /\ UNCHANGED <<functions, content, idx, out, before, initial>>

\* the lengths of the part written when the write raises
PartialLens(c) == {k \in {0, Len(c) \div 2} : k < Len(c)}

\* the write raises after part of the buffer reached the file
WriteFail(p) ==
  /\ pc[p] = "write"
  /\ \E k \in PartialLens(content[p]) :
       file' = Written(file, SubSeq(content[p], 1, k))
  /\ pc' = [pc EXCEPT ![p] = "failed"]
  /\ UNCHANGED <<functions, content, idx, out, before, initial, hist>>

\* a count that takes the file name for a function name
CountWithFilename(p) == Len(functions[p]) + 1

\* len(functions) of the summary line
Count(p) == Len(functions[p])

\* print(f"Wrapped {len(functions)} functions in {filename}")
PrintSummary(p) ==
  /\ pc[p] = "print"
  /\ out' = [out EXCEPT ![p] = Append(out[p], <<"Wrapped", Count(p)>>)]
  /\ pc' = [pc EXCEPT ![p] = "done"]
  /\ UNCHANGED <<file, functions, content, idx, before, initial, hist>>

\* one run of the script, file operations may fail
Next ==
  \/ \E p \in Active : Read(p)
  \/ \E p \in Active : ReadFail(p)
  \/ \E p \in Active : Wrap(p)
  \/ \E p \in Active : OpenWrite(p)
  \/ \E p \in Active : OpenWriteFail(p)
  \/ \E p \in Active : Write(p)
  \/ \E p \in Active : WriteFail(p)
  \/ \E p \in Active : PrintSummary(p)

Spec == Init /\ [][Next]_vars

\* two runs of the script on the same file, no file operation fails
NextConc ==
  \/ \E p \in Active : Read(p)
  \/ \E p \in Active : Wrap(p)
  \/ \E p \in Active : OpenWrite(p)
  \/ \E p \in Active : Write(p)
  \/ \E p \in Active : PrintSummary(p)

SpecConc == InitConc /\ [][NextConc]_vars

\* ------------------------------------------------------- claim vocabulary
\* the name of the latest pass of run p
LastFunc(p) == functions[p][idx[p]]

\* run p has made a pass of wrap_function: before[p] -> content[p]
Passed(p) == p \in Active /\ idx[p] >= 1

Occurrences(c, t) == Cardinality({k \in DOMAIN c : c[k] = t})

Kinds(c, kind) == Cardinality({k \in DOMAIN c : c[k][1] = kind})

\* c declares 'export async function f(...) { try {'
HasDecl(c, f) == \E k \in DOMAIN c : TryMatch(c, k, f)

\* positions of c where a failure-shaped catch block starts
Blocks(c) == {i \in DOMAIN c : CatchEnd(c, i) # 0}

\* a failure-shaped block that starts at the closing brace of another one
Adjacent(c) == \E i \in Blocks(c) : CatchEnd(c, i) \in Blocks(c)

\* the failure-shaped blocks that do not start at the closing brace of another
Heads(c) == {i \in Blocks(c) : ~\E j \in Blocks(c) : CatchEnd(c, j) = i}

\* opening and closing braces a token holds
Opens(t) ==
  IF t[1] \in {"DECL", "TRY", "WRAP", "CATCH", "RETFAIL", "RETOK"} THEN 1
  ELSE IF t = ARG("{function_name}") THEN 1 ELSE 0

Closes(t) ==
  IF t[1] \in {"RB", "RETFAIL", "RETOK"} THEN 1
  ELSE IF t = ARG("{function_name}") THEN 1 ELSE 0

RECURSIVE Depth(_)
\* opening minus closing braces of c
Depth(c) ==
  IF c = <<>> THEN 0
  ELSE Depth(SubSeq(c, 1, Len(c) - 1)) + Opens(c[Len(c)]) - Closes(c[Len(c)])

Balanced(c) ==
  /\ Depth(c) = 0
  /\ \A k \in 1..Len(c) : Depth(SubSeq(c, 1, k)) >= 0

RECURSIVE Fold(_, _)
\* wrap_function folded over c, once per name of fs, left to right
Fold(c, fs) ==
  IF fs = <<>> THEN c ELSE Fold(wrap_function(c, Head(fs)), Tail(fs))

IsPrefix(s, t) == Len(s) <= Len(t) /\ SubSeq(t, 1, Len(s)) = s

\* position of the file operation op of run p in hist (0 if it has not happened)
Pos(p, op) ==
  IF \E k \in DOMAIN hist : hist[k] = <<p, op>>
  THEN CHOOSE k \in DOMAIN hist : hist[k] = <<p, op>>
  ELSE 0

\* ------------------------------------------------------------------ claims

\* C1: a pass for a name f that the content does not declare (no
\* 'export async function f(...) { try {') returns the content unchanged,
\* also when the content holds failure-shaped catch blocks of other functions.
C1_IdentityOnMismatch ==
  \A p \in Procs :
    (Passed(p) /\ ~HasDecl(before[p], LastFunc(p))) => content[p] = before[p]

\* C2: over a content with exactly one guarded-function/failure-block pair for
\* f, the pass for f replaces 'try {' by the wrapper opener and the failure
\* block by a callback closer whose trailing argument is the value of f.
C2_LabelIsFunctionName ==
  \A p \in Procs :
    ( /\ Passed(p)
      /\ before[p] = Function(DECL(LastFunc(p)), "fail") )
    => /\ content[p][2] = WRAP
       /\ content[p][3] = BODY
       /\ Kinds(content[p], "CATCH") = 0
       /\ Occurrences(content[p], ARG(LastFunc(p))) = 1

\* C3: a pass that rewrites a failure block closes the block structure
\* exactly: a content with balanced braces has balanced braces afterwards.
C3_BracesStayBalanced ==
  \A p \in Procs :
    (Passed(p) /\ Balanced(before[p]) /\ Blocks(before[p]) # {})
    => Balanced(content[p])

\* C4: after a run that completes, the file equals wrap_function folded over
\* the content read at the start, once per name, in argument order.
C4_FileIsFold ==
  pc[1] \in {"print", "done"} => file = Fold(initial, functions[1])

C4_Witness ==
  /\ pc[1] = "done"
  /\ Len(functions[1]) = 2
  /\ functions[1][1] # functions[1][2]
  /\ HasDecl(initial, functions[1][1])
  /\ HasDecl(initial, functions[1][2])
  /\ file = Fold(initial, functions[1])

\* C5 (as claimed): at every point of a run, aborted or not, the file holds
\* the complete original content or the complete transformed content.
C5_AllOrNothing ==
  file = initial \/ file = Fold(initial, functions[1])

\* C5 (amended): the file holds the original until open-for-write succeeds,
\* is empty from then until the write, holds the transformed content once the
\* write completed, and holds a proper prefix of it when the write failed.
C5_TruncateThenWrite ==
  /\ pc[1] \in {"read", "loop"} => file = initial
  /\ pc[1] = "write" => file = <<>>
  /\ pc[1] \in {"print", "done"} => file = Fold(initial, functions[1])
  /\ (pc[1] = "failed" /\ Pos(1, "open") = 0) => file = initial
  /\ (pc[1] = "failed" /\ Pos(1, "open") # 0) =>
       /\ IsPrefix(file, content[1])
       /\ Len(file) < Len(content[1])

C5_Witness ==
  /\ pc[1] = "failed"
  /\ Pos(1, "open") # 0
  /\ file # <<>>
  /\ file # initial
  /\ file # content[1]

\* C6 (as claimed): a second pass for the same name is the identity, for
\* every content, also when failure-shaped blocks directly follow one another.
C6_Idempotent ==
  \A p \in Procs :
    Passed(p) => wrap_function(content[p], LastFunc(p)) = content[p]

\* C6 (amended): a second pass for the same name is the identity when no
\* failure-shaped block of the content starts at the closing brace of another.
C6_IdempotentUnlessAdjacent ==
  \A p \in Procs :
    (Passed(p) /\ ~Adjacent(before[p]))
    => wrap_function(content[p], LastFunc(p)) = content[p]

C6_Witness ==
  /\ Passed(1)
  /\ ~Adjacent(before[1])
  /\ Cardinality(Blocks(before[1])) = 2
  /\ HasDecl(before[1], LastFunc(1))
  /\ content[1] # before[1]
  /\ wrap_function(content[1], LastFunc(1)) = content[1]

C8_FirstBlockOnly ==
  \A p \in Procs :
    Passed(p) =>
      content[p] = SubCatchFirst(SubTry(before[p], LastFunc(p)), LastFunc(p))

\* C8 (amended): Step B is not scoped to the named function and one pass
\* rewrites every failure-shaped block that does not start at the closing
\* brace of another one, whether or not the block belongs to f; when no block
\* starts at the closing brace of another, no failure-shaped block is left.
C8_EveryBlockRewritten ==
  \A p \in Procs :
    Passed(p) =>
      /\ Kinds(before[p], "CATCH") - Kinds(content[p], "CATCH")
           >= Cardinality(Heads(before[p]))
      /\ ~Adjacent(before[p]) => Blocks(content[p]) = {}

C8_Witness ==
  /\ Passed(1)
  /\ idx[1] = 1
  /\ Cardinality(Heads(before[1])) = 2
  /\ ~HasDecl(before[1], LastFunc(1))
  /\ Kinds(content[1], "CATCH") = 0
  /\ Kinds(content[1], "ARG") = 2

\* the final file of two finished runs that both read before either opened
\* the file for writing
ReadsFirst ==
  /\ \A p \in Procs : pc[p] = "done"
  /\ \A p, q \in Procs : Pos(p, "read") < Pos(q, "open")

\* the run that wrote last
LastWriter == hist[Len(hist)][1]

\* the outcome of run a followed by run b, one after the other
Sequential(a, b) == Fold(Fold(initial, functions[a]), functions[b])

\* C9 (as claimed): when both runs read before either writes, the final file
\* is the last writer's transform of the original content alone and differs
\* from the outcome of both sequential orders of the two runs.
C9_LostUpdateAlways ==
  ReadsFirst =>
    /\ file = Fold(initial, functions[LastWriter])
    /\ file # Sequential(1, 2)
    /\ file # Sequential(2, 1)

\* C9 (amended): when both runs read before either opens the file for
\* writing, the final file begins with the last writer's transform of the
\* original content alone, and equals it when the other run's write came
\* before the last writer's open-for-write.
C9_LastWriterWins ==
  ReadsFirst =>
    LET w == LastWriter
        t == Fold(initial, functions[w])
    IN /\ IsPrefix(t, file)
       /\ (\A q \in Procs \ {w} : Pos(q, "write") < Pos(w, "open")) => file = t

C9_Witness ==
  /\ ReadsFirst
  /\ file = Fold(initial, functions[LastWriter])
  /\ file # Sequential(1, 2)
  /\ file # Sequential(2, 1)

\* C10: after processing any list of names, the wrapper openers inserted by
\* Step A are as many as the callback closers inserted by Step B.
C10_OpenersMatchClosers ==
  \A p \in Procs :
    Passed(p) => Kinds(content[p], "WRAP") = Kinds(content[p], "ARG")

====
